---- MODULE Spec2Model ----
(***************************************************************************)
(* Model of run.py: the model-path resolver (candidate_dirs,               *)
(* find_model_file, prepare_model_path), the loader (load_model_from_path) *)
(* and the entry point main with its single try/except.                    *)
(*                                                                         *)
(* A path string is the sequence of its "/"-separated segments; an         *)
(* absolute path starts with the segment "/".  A command-line string keeps *)
(* the segments as typed ("./x.csv" is <<".", "x.csv">>), pathlib's Path() *)
(* drops the "." segments, and str() gives the normalised text back.       *)
(*                                                                         *)
(* The environment of one process run (directories, files, argv, the CSV   *)
(* content) is chosen in Init and never changes.  What a file unpickles to *)
(* and what predict returns are chosen when the run gets there.            *)
(* Writes to stderr are taken to succeed; writes to stdout may raise.      *)
(***************************************************************************)
EXTENDS Integers, Sequences, FiniteSets, TLC

\* ---- bounds -------------------------------------------------------------
NumDirs == 2      \* distinct directories of the environment
MaxFiles == 2     \* model files present at once, resolver called directly
MaxRunFiles == 1  \* model files present at once, in a run of main
MaxRows == 2      \* rows of the CSV

VARIABLES
    script_dir,   \* Path(__file__).resolve().parent, NoDir when it raises
    argv0_dir,    \* Path(sys.argv[0]).resolve().parent, NoDir when it raises
    meipass,      \* sys._MEIPASS, NoDir when unset
    cwd,          \* the working directory, NoDir when it cannot be determined
    files,        \* absolute paths that exist
    argv,         \* the command line
    csv_data,     \* content of the CSV file
    pc,           \* position of the run
    args,         \* parsed arguments
    csv_path, model_path, tried_paths, df, preds, label,
    exc,          \* the exception being propagated
    raised_step,  \* step of main (1..5) that raised, 0 when none
    calls,        \* functions of the resolver/loader that main has invoked
    opened,       \* files opened for reading by load_model_from_path
    stdout, stderr, exit_code,
    ret_dirs, ret_found, ret_prep   \* results of direct calls of the resolver

vars == <<script_dir, argv0_dir, meipass, cwd, files, argv, csv_data, pc, args,
          csv_path, model_path, tried_paths, df, preds, label, exc,
          raised_step, calls, opened, stdout, stderr, exit_code,
          ret_dirs, ret_found, ret_prep>>

envVars == <<script_dir, argv0_dir, meipass, cwd, files, argv, csv_data>>
runVars == <<args, csv_path, model_path, tried_paths, df, preds, label, exc,
             raised_step, calls, opened, stdout, stderr, exit_code>>
retVars == <<ret_dirs, ret_found, ret_prep>>

\* ---- paths --------------------------------------------------------------
Range(s) == {s[i] : i \in 1..Len(s)}

NoDir == <<>>
Dirs == {<<"/", ToString(i)>> : i \in 1..NumDirs}
DirOrNone == Dirs \cup {NoDir}

\* Path(text): pathlib drops "." segments
PathOf(text) == SelectSeq(text, LAMBDA c : c # ".")

\* str(path): the normalised text; the empty path prints as "."
Str(p) == IF p = <<>> THEN <<".">> ELSE p

IsAbsolute(p) == Len(p) > 0 /\ p[1] = "/"

\* base.joinpath(text): an absolute text replaces the base
JoinPath(base, text) ==
    LET q == PathOf(text) IN IF IsAbsolute(q) THEN q ELSE base \o q

\* path.exists(): a relative path is looked up under the working directory
Exists(p) ==
    IF IsAbsolute(p) THEN p \in files
    ELSE cwd # NoDir /\ (cwd \o p) \in files

\* ---- resolver -----------------------------------------------------------
DefaultNames == << <<"model", "RF_binary_v1.pickle">>, <<"RF_binary_v1.pickle">> >>

Raised == [raised |-> TRUE, dirs |-> <<>>, path |-> <<>>, found |-> FALSE, tried |-> <<>>]
DirsRet(d) == [raised |-> FALSE, dirs |-> d, path |-> <<>>, found |-> FALSE, tried |-> <<>>]
PathRet(f, p, t) == [raised |-> FALSE, dirs |-> <<>>, path |-> p, found |-> f, tried |-> t]

candidate_dirs ==
    LET d1 == IF script_dir # NoDir THEN <<script_dir>> ELSE <<>>
        d2 == IF argv0_dir # NoDir /\ argv0_dir \notin Range(d1)
              THEN Append(d1, argv0_dir) ELSE d1
        d3 == IF meipass # NoDir /\ meipass \notin Range(d2)
              THEN <<meipass>> \o d2 ELSE d2
    IN  IF cwd = NoDir THEN Raised      \* Path.cwd() is outside every try
        ELSE DirsRet(IF cwd \notin Range(d3) THEN Append(d3, cwd) ELSE d3)

\* find_model_file with the loops swapped: names outside, directories inside
RECURSIVE FindFromNameMajor(_, _, _, _)
FindFromNameMajor(dirs, names, i, j) ==
    IF j > Len(names) THEN PathRet(FALSE, <<>>, <<>>)
    ELSE IF i > Len(dirs) THEN FindFromNameMajor(dirs, names, 1, j + 1)
    ELSE LET p == JoinPath(dirs[i], names[j])
         IN  IF Exists(p) THEN PathRet(TRUE, p, <<>>)
             ELSE FindFromNameMajor(dirs, names, i + 1, j)

\* the nested loops of find_model_file from position (i, j) on
RECURSIVE FindFrom(_, _, _, _)
FindFrom(dirs, names, i, j) ==
    IF i > Len(dirs) THEN PathRet(FALSE, <<>>, <<>>)
    ELSE IF j > Len(names) THEN FindFrom(dirs, names, i + 1, 1)
    ELSE LET p == JoinPath(dirs[i], names[j])
         IN  IF Exists(p) THEN PathRet(TRUE, p, <<>>)
             ELSE FindFrom(dirs, names, i, j + 1)

find_model_file(names) ==
    LET c == candidate_dirs
    IN  IF c.raised THEN Raised ELSE FindFrom(c.dirs, names, 1, 1)

\* the loop over candidate_dirs() for an explicit path, from base i on
RECURSIVE ExplicitFrom(_, _, _, _)
ExplicitFrom(dirs, text, i, tried) ==
    IF i > Len(dirs) THEN PathRet(FALSE, <<>>, tried)
    ELSE LET candidate == JoinPath(dirs[i], text)
             t == Append(tried, Str(candidate))
         IN  IF Exists(candidate) THEN PathRet(TRUE, candidate, t)
             ELSE ExplicitFrom(dirs, text, i + 1, t)

\* every directory x default-name text, directory-major
RECURSIVE AllDefaults(_, _, _, _)
AllDefaults(dirs, names, i, j) ==
    IF i > Len(dirs) THEN <<>>
    ELSE IF j > Len(names) THEN AllDefaults(dirs, names, i + 1, 1)
    ELSE <<Str(JoinPath(dirs[i], names[j]))>> \o AllDefaults(dirs, names, i, j + 1)

\* `if cli_model:` is false for None and for the empty string
Truthy(cli) == cli.given /\ cli.text # <<>>

DefaultFlow(tried) ==
    LET found == find_model_file(DefaultNames)
    IN  IF found.raised THEN Raised
        ELSE IF found.found THEN PathRet(TRUE, found.path, <<Str(found.path)>>)
        ELSE PathRet(FALSE, PathOf(DefaultNames[1]),
                     tried \o AllDefaults(candidate_dirs.dirs, DefaultNames, 1, 1))

prepare_model_path(cli) ==
    IF ~Truthy(cli) THEN DefaultFlow(<<>>)
    ELSE LET p == PathOf(cli.text)
         IN  IF Exists(p) THEN PathRet(TRUE, p, <<Str(p)>>)
             ELSE IF candidate_dirs.raised THEN Raised
             ELSE LET e == ExplicitFrom(candidate_dirs.dirs, cli.text, 1, <<Str(p)>>)
                  IN  IF e.found THEN e ELSE DefaultFlow(e.tried)

\* ---- inputs -------------------------------------------------------------
ExplicitName == <<"m.pkl">>
ModelNames == Range(DefaultNames) \cup {ExplicitName}
ModelFiles == {d \o n : d \in Dirs, n \in ModelNames}

NoArg == [given |-> FALSE, text |-> <<>>]
Given(t) == [given |-> TRUE, text |-> t]
CliModels == {NoArg, Given(<<>>), Given(ExplicitName), Given(<<".">> \o ExplicitName),
              Given(<<"/", "1">> \o ExplicitName)}

NoExc == [type |-> "", msg |-> "", paths |-> <<>>, cause |-> ""]
NoArgs == [csv |-> <<>>, model |-> NoArg]
NoRet == [raised |-> FALSE, dirs |-> <<>>, path |-> <<>>, found |-> FALSE, tried |-> <<>>]

RunIdle ==
    /\ args = NoArgs /\ csv_path = <<>> /\ model_path = <<>> /\ tried_paths = <<>>
    /\ df = <<>> /\ preds = <<>> /\ label = "" /\ exc = NoExc /\ raised_step = 0
    /\ calls = {} /\ opened = {} /\ stdout = <<>> /\ stderr = <<>> /\ exit_code = -1

RetIdle == ret_dirs = NoRet /\ ret_found = NoRet /\ ret_prep = NoRet

\* ---- the resolver called directly --------------------------------------
InitResolve ==
    /\ script_dir \in DirOrNone /\ argv0_dir \in DirOrNone
    /\ meipass \in DirOrNone /\ cwd \in DirOrNone
    /\ files \in {f \in SUBSET ModelFiles : Cardinality(f) <= MaxFiles}
    /\ \E m \in CliModels : argv = [kind |-> "ok", csv |-> <<>>, model |-> m]
    /\ csv_data = [readable |-> TRUE, rows |-> <<>>]
    /\ pc = "call"
    /\ RunIdle /\ RetIdle

CallCandidateDirs ==
    /\ pc = "call"
    /\ ret_dirs' = candidate_dirs
    /\ pc' = "dirs_done"
    /\ UNCHANGED <<envVars, runVars, ret_found, ret_prep>>

CallFindModelFile ==
    /\ pc = "dirs_done"
    /\ ret_found' = find_model_file(DefaultNames)
    /\ pc' = "find_done"
    /\ UNCHANGED <<envVars, runVars, ret_dirs, ret_prep>>

CallPrepareModelPath ==
    /\ pc = "find_done"
    /\ ret_prep' = prepare_model_path(argv.model)
    /\ pc' = "prep_done"
    /\ UNCHANGED <<envVars, runVars, ret_dirs, ret_found>>

NextResolve == CallCandidateDirs \/ CallFindModelFile \/ CallPrepareModelPath

SpecResolve == InitResolve /\ [][NextResolve]_vars

\* ---- loader and entry point --------------------------------------------
Abs(p) == IF IsAbsolute(p) THEN p ELSE cwd \o p

Exc(t, m, ps, c) == [type |-> t, msg |-> m, paths |-> ps, cause |-> c]

\* str(e) and traceback.format_exc() of the error envelope
ErrorEnvelope(e) ==
    [success |-> FALSE,
     error |-> [msg |-> e.msg, paths |-> e.paths, cause |-> e.cause],
     traceback |-> e.type]

SuccessEnvelope(l) == [success |-> TRUE, results |-> l]

UsageText == [text |-> "usage: the following arguments are required: csv"]
HelpText == [text |-> "usage: Run model prediction (JSON output)."]

Codes == {0, 1, 2}

mapping(code) == IF code = 0 THEN "BPA" ELSE "UPA"

\* the label taken from the last row instead of the first
LastPred(p) == p[Len(p)]

FirstPred(p) == p[1]

DropNA(rows) == SelectSeq(rows, LAMBDA complete : complete)

\* the sequences of n class codes
RECURSIVE PredsOfLen(_)
PredsOfLen(n) ==
    IF n = 0 THEN {<<>>}
    ELSE {Append(s, c) : s \in PredsOfLen(n - 1), c \in Codes}

\* `raise` inside the try of main: control goes to the except clause
Raise(e, step) ==
    /\ exc' = e
    /\ raised_step' = step
    /\ pc' = "handler"

\* parser.parse_args(): argparse prints and leaves through SystemExit,
\* which `except Exception` does not catch
ParseArgs ==
    /\ pc = "start"
    /\ \/ /\ argv.kind = "ok"
          /\ args' = [csv |-> argv.csv, model |-> argv.model]
          /\ pc' = "check_csv"
          /\ UNCHANGED <<raised_step, stdout, stderr, exit_code>>
       \/ /\ argv.kind = "missing"
          /\ stderr' = Append(stderr, UsageText)
          /\ exit_code' = 2
          /\ raised_step' = 1
          /\ pc' = "exited"
          /\ UNCHANGED <<args, stdout>>
       \/ /\ argv.kind = "help"
          /\ stdout' = Append(stdout, HelpText)
          /\ exit_code' = 0
          /\ pc' = "exited"
          /\ UNCHANGED <<args, stderr, raised_step>>
    /\ UNCHANGED <<envVars, retVars, csv_path, model_path, tried_paths, df, preds,
                   label, exc, calls, opened>>

\* main without the existence check of the CSV
CheckCsvSkipped ==
    /\ pc = "check_csv"
    /\ csv_path' = PathOf(args.csv)
    /\ pc' = "resolve"
    /\ UNCHANGED <<exc, raised_step>>
    /\ UNCHANGED <<envVars, retVars, args, model_path, tried_paths, df, preds, label,
                   calls, opened, stdout, stderr, exit_code>>

CheckCsv ==
    /\ pc = "check_csv"
    /\ csv_path' = PathOf(args.csv)
    /\ IF ~Exists(PathOf(args.csv))
       THEN Raise(Exc("FileNotFoundError", "input csv not found",
                      <<Str(PathOf(args.csv))>>, ""), 2)
       ELSE pc' = "resolve" /\ UNCHANGED <<exc, raised_step>>
    /\ UNCHANGED <<envVars, retVars, args, model_path, tried_paths, df, preds, label,
                   calls, opened, stdout, stderr, exit_code>>

ResolveModel ==
    /\ pc = "resolve"
    /\ calls' = calls \cup {"prepare_model_path"}
    /\ LET r == prepare_model_path(args.model)
       IN  IF r.raised
           THEN /\ Raise(Exc("FileNotFoundError", "cwd: no such file or directory",
                             <<>>, ""), 3)
                /\ UNCHANGED <<model_path, tried_paths>>
           ELSE /\ model_path' = r.path
                /\ tried_paths' = r.tried
                /\ pc' = "load_csv"
                /\ UNCHANGED <<exc, raised_step>>
    /\ UNCHANGED <<envVars, retVars, args, csv_path, df, preds, label, opened,
                   stdout, stderr, exit_code>>

LoadCsv ==
    /\ pc = "load_csv"
    /\ IF ~csv_data.readable
       THEN /\ Raise(Exc("ParserError", "read_csv failed", <<>>, ""), 4)
            /\ UNCHANGED df
       ELSE /\ df' = DropNA(csv_data.rows)
            /\ IF Len(DropNA(csv_data.rows)) = 0
               THEN Raise(Exc("ValueError", "No rows after dropna()", <<>>, ""), 4)
               ELSE pc' = "load_model" /\ UNCHANGED <<exc, raised_step>>
    /\ UNCHANGED <<envVars, retVars, args, csv_path, model_path, tried_paths, preds,
                   label, calls, opened, stdout, stderr, exit_code>>

\* load_model_from_path inside the inner try of main, which re-raises with
\* the attempted paths and the text of the original exception
LoadModel ==
    /\ pc = "load_model"
    /\ calls' = calls \cup {"load_model_from_path"}
    /\ IF ~Exists(model_path)
       THEN /\ Raise(Exc("FileNotFoundError", "cannot load model",
                         tried_paths \o <<Str(model_path)>>, "model file missing"), 4)
            /\ UNCHANGED opened
       ELSE /\ opened' = opened \cup {Abs(model_path)}
            /\ \/ pc' = "predict" /\ UNCHANGED <<exc, raised_step>>
               \/ Raise(Exc("FileNotFoundError", "cannot load model",
                            tried_paths, "unpickling failed"), 4)
    /\ UNCHANGED <<envVars, retVars, args, csv_path, model_path, tried_paths, df,
                   preds, label, stdout, stderr, exit_code>>

Predict ==
    /\ pc = "predict"
    /\ \/ /\ \E p \in PredsOfLen(Len(df)) : preds' = p
          /\ pc' = "label"
          /\ UNCHANGED <<exc, raised_step>>
       \/ /\ Raise(Exc("Exception", "predict failed", <<>>, ""), 4)
          /\ UNCHANGED preds
    /\ UNCHANGED <<envVars, retVars, args, csv_path, model_path, tried_paths, df,
                   label, calls, opened, stdout, stderr, exit_code>>

MapLabel ==
    /\ pc = "label"
    /\ IF FirstPred(preds) \in {0, 1}
       THEN /\ label' = mapping(FirstPred(preds))
            /\ pc' = "emit"
            /\ UNCHANGED <<exc, raised_step>>
       ELSE /\ Raise(Exc("KeyError", "key not in mapping", <<>>, ""), 4)
            /\ UNCHANGED label
    /\ UNCHANGED <<envVars, retVars, args, csv_path, model_path, tried_paths, df,
                   preds, calls, opened, stdout, stderr, exit_code>>

\* sys.stdout.write, sys.stdout.flush, sys.exit(0), all inside the try
EmitSuccess ==
    /\ pc = "emit"
    /\ \/ /\ Raise(Exc("OSError", "stdout write failed", <<>>, ""), 5)
          /\ UNCHANGED <<stdout, exit_code>>
       \/ /\ stdout' = Append(stdout, SuccessEnvelope(label))
          /\ Raise(Exc("OSError", "stdout flush failed", <<>>, ""), 5)
          /\ UNCHANGED exit_code
       \/ /\ stdout' = Append(stdout, SuccessEnvelope(label))
          /\ exit_code' = 0
          /\ pc' = "exited"
          /\ UNCHANGED <<exc, raised_step>>
    /\ UNCHANGED <<envVars, retVars, args, csv_path, model_path, tried_paths, df,
                   preds, label, calls, opened, stderr>>

\* except Exception as e: one error envelope on stderr, sys.exit(2)
HandleException ==
    /\ pc = "handler"
    /\ stderr' = Append(stderr, ErrorEnvelope(exc))
    /\ exit_code' = 2
    /\ pc' = "exited"
    /\ UNCHANGED <<envVars, retVars, args, csv_path, model_path, tried_paths, df,
                   preds, label, exc, raised_step, calls, opened, stdout>>

\* ---- one run of the program --------------------------------------------
CsvTexts == {<<"/", "data", "x.csv">>, <<".", "x.csv">>}

Argvs == {[kind |-> "ok", csv |-> c, model |-> m] : c \in CsvTexts, m \in CliModels}
         \cup {[kind |-> k, csv |-> <<>>, model |-> NoArg] : k \in {"missing", "help"}}

\* the file the csv argument names
CsvTarget(a) ==
    IF a.kind # "ok" THEN {}
    ELSE IF IsAbsolute(PathOf(a.csv)) THEN {PathOf(a.csv)}
    ELSE IF cwd = NoDir THEN {}
    ELSE {cwd \o PathOf(a.csv)}

RECURSIVE RowsUpTo(_)
RowsUpTo(n) ==
    IF n = 0 THEN {<<>>}
    ELSE RowsUpTo(n - 1) \cup
         {Append(s, b) : s \in {r \in RowsUpTo(n - 1) : Len(r) = n - 1}, b \in BOOLEAN}

NoCsv == [readable |-> FALSE, rows |-> <<>>]
CsvContents == {NoCsv} \cup {[readable |-> TRUE, rows |-> r] : r \in RowsUpTo(MaxRows)}

\* a run of the script itself: argv[0] is the script, so both lookups give its
\* directory; the bundle directory and the working directory are free
Init ==
    /\ script_dir \in Dirs /\ argv0_dir = script_dir
    /\ meipass \in DirOrNone /\ cwd \in DirOrNone
    /\ argv \in Argvs
    /\ \E mf \in {f \in SUBSET ModelFiles : Cardinality(f) <= MaxRunFiles},
          cf \in SUBSET CsvTarget(argv) :
            /\ files = mf \cup cf
            /\ csv_data \in IF cf = {} THEN {NoCsv} ELSE CsvContents
    /\ pc = "start"
    /\ RunIdle /\ RetIdle

Next ==
    \/ ParseArgs \/ CheckCsv \/ ResolveModel \/ LoadCsv \/ LoadModel
    \/ Predict \/ MapLabel \/ EmitSuccess \/ HandleException

Spec == Init /\ [][Next]_vars

\* ---- properties ---------------------------------------------------------
Exited == pc = "exited"

IsSuccessEnvelope(x) == DOMAIN x = {"success", "results"} /\ x.success
IsErrorEnvelope(x) == DOMAIN x = {"success", "error", "traceback"} /\ ~x.success

OneSuccessEnvelope(stream) == Len(stream) = 1 /\ IsSuccessEnvelope(stream[1])
OneErrorEnvelope(stream) == Len(stream) = 1 /\ IsErrorEnvelope(stream[1])

\* text a occurs in text b, segment for segment
IsInfix(a, b) == \E k \in 0..(Len(b) - Len(a)) : SubSeq(b, k + 1, k + Len(a)) = a

\* the error message shows a path text that contains `text`
ErrorContains(env, text) ==
    \E i \in 1..Len(env.error.paths) : IsInfix(text, env.error.paths[i])

Min(S) == CHOOSE x \in S : \A y \in S : x <= y

CsvGiven == argv.kind = "ok"
CsvPresent == CsvGiven /\ Exists(PathOf(argv.csv))
CompleteRows == IF csv_data.readable THEN Len(DropNA(csv_data.rows)) ELSE 0

\* the run loaded the CSV and the model, and predict returned a first code 0 or 1
PredictedKnownClass ==
    /\ CsvPresent /\ CompleteRows >= 1
    /\ "load_model_from_path" \in calls
    /\ Len(preds) >= 1 /\ preds[1] \in {0, 1}

LabelOf(code) == IF code = 0 THEN "BPA" ELSE IF code = 1 THEN "UPA" ELSE "?"

C2_ErrorEnvelopeOnAnyException ==
    (Exited /\ raised_step \in 1..5)
        => /\ exit_code = 2
           /\ OneErrorEnvelope(stderr)

\* C3: a terminated run that exits 0 wrote one success envelope to stdout and
\* nothing to stderr; one that exits non-zero exits 2, wrote nothing to stdout
\* and one error envelope to stderr; no run wrote both kinds of envelope.
C3_StreamsNeverMixed ==
    Exited =>
        /\ exit_code = 0 => (OneSuccessEnvelope(stdout) /\ stderr = <<>>)
        /\ exit_code # 0 =>
              (exit_code = 2 /\ stdout = <<>> /\ OneErrorEnvelope(stderr))
        /\ ~ /\ \E i \in 1..Len(stdout) : IsSuccessEnvelope(stdout[i])
             /\ \E j \in 1..Len(stderr) : IsErrorEnvelope(stderr[j])

\* C3, the run it excludes: a success envelope on stdout and an error envelope
\* on stderr in the same run.
C3_BothEnvelopes ==
    /\ Exited /\ exit_code = 2
    /\ OneSuccessEnvelope(stdout) /\ OneErrorEnvelope(stderr)

\* C4 as stated: when the CSV path of the command line does not exist the run
\* exits 2 with an error envelope whose error contains the path exactly as
\* typed, and neither prepare_model_path nor load_model_from_path was invoked.
C4_AsStated ==
    (Exited /\ CsvGiven /\ ~CsvPresent)
        => /\ exit_code = 2
           /\ OneErrorEnvelope(stderr)
           /\ ErrorContains(stderr[1], argv.csv)
           /\ calls = {}

\* C4: the same, with the error containing the path as pathlib prints it
\* (the typed text without its "." segments).
C4_MissingCsvBeforeModelWork ==
    (Exited /\ CsvGiven /\ ~CsvPresent)
        => /\ exit_code = 2
           /\ OneErrorEnvelope(stderr)
           /\ ErrorContains(stderr[1], Str(PathOf(argv.csv)))
           /\ calls = {}

C4_Witness ==
    /\ Exited /\ CsvGiven /\ ~CsvPresent
    /\ argv.csv = <<".", "x.csv">> /\ argv.model.given /\ files # {}
    /\ exit_code = 2 /\ stderr[1].error.paths = << <<"x.csv">> >>

\* C5: when the CSV exists and no row is left after dropna the run exits 2
\* with the error "No rows after dropna()", whatever the model argument and
\* the model files, and the model file is never opened.
C5_EmptyCsvBeforeModelLoad ==
    (Exited /\ CsvPresent /\ csv_data.readable /\ CompleteRows = 0)
        => /\ exit_code = 2
           /\ OneErrorEnvelope(stderr)
           /\ stderr[1].error.msg = "No rows after dropna()"
           /\ opened = {}
           /\ "load_model_from_path" \notin calls

\* the directories the resolver can draw candidates from
AvailableDirs == {script_dir, argv0_dir, meipass, cwd} \ {NoDir}

NoModelAnywhere(text) ==
    /\ ~Exists(PathOf(text))
    /\ \A d \in AvailableDirs :
          /\ ~Exists(JoinPath(d, text))
          /\ \A j \in 1..Len(DefaultNames) : ~Exists(JoinPath(d, DefaultNames[j]))

\* C6: when --model names a file found neither as given nor under a candidate
\* directory, no default model exists in a candidate directory and the CSV
\* keeps a row, the run exits 2 and the error lists the explicit path (as
\* pathlib prints it), its join with every candidate directory and every
\* directory x default-name path; the list is not empty.
C6_AllAttemptedPathsReported ==
    (Exited /\ CsvPresent /\ CompleteRows >= 1
            /\ Truthy(argv.model) /\ NoModelAnywhere(argv.model.text))
        => /\ exit_code = 2
           /\ OneErrorEnvelope(stderr)
           /\ stderr[1].error.paths # <<>>
           /\ Str(PathOf(argv.model.text)) \in Range(stderr[1].error.paths)
           /\ \A d \in AvailableDirs :
                 /\ Str(JoinPath(d, argv.model.text)) \in Range(stderr[1].error.paths)
                 /\ \A j \in 1..Len(DefaultNames) :
                       Str(JoinPath(d, DefaultNames[j])) \in Range(stderr[1].error.paths)

HasDefault(d) == \E j \in 1..Len(DefaultNames) : Exists(JoinPath(d, DefaultNames[j]))

\* C7: with a bundle directory set, every list candidate_dirs returns has the
\* bundle directory first, and when the bundle directory and the script
\* directory both hold a default model the default search returns the copy
\* of the bundle directory.
C7_BundleDirFirst ==
    /\ (pc \in {"dirs_done", "find_done", "prep_done"}
            /\ meipass # NoDir /\ ~ret_dirs.raised)
          => ret_dirs.dirs[1] = meipass
    /\ (pc \in {"find_done", "prep_done"} /\ ~ret_found.raised
            /\ meipass # NoDir /\ script_dir # NoDir
            /\ HasDefault(meipass) /\ HasDefault(script_dir))
          => \E j \in 1..Len(DefaultNames) :
                ret_found.path = JoinPath(meipass, DefaultNames[j])

\* C8: prepare_model_path returns a (path, attempted) pair for every explicit
\* input and every state of the environment; it never raises.
C8_PrepareNeverRaises ==
    pc = "prep_done" => ~ret_prep.raised

\* the path the resolution rule of C9 selects over the candidate list cands
ReferencePath(cli, cands) ==
    LET explicitAt == {i \in 1..Len(cands) : Exists(JoinPath(cands[i], cli.text))}
        defaultAt == {<<i, j>> \in (1..Len(cands)) \X (1..Len(DefaultNames)) :
                         Exists(JoinPath(cands[i], DefaultNames[j]))}
        firstDir == Min({q[1] : q \in defaultAt})
        firstName == Min({q[2] : q \in {r \in defaultAt : r[1] = firstDir}})
    IN  IF Truthy(cli) /\ Exists(PathOf(cli.text)) THEN PathOf(cli.text)
        ELSE IF Truthy(cli) /\ explicitAt # {}
             THEN JoinPath(cands[Min(explicitAt)], cli.text)
        ELSE IF defaultAt # {}
             THEN JoinPath(cands[firstDir], DefaultNames[firstName])
        ELSE PathOf(DefaultNames[1])

\* C9: the path prepare_model_path returns is the explicit path when it is
\* given (non-empty) and exists as given; else its join with the first
\* candidate directory where the join exists; else the first existing
\* default, directories in order and default names in order within each;
\* else the first default name itself.
C9_ResolutionOrder ==
    (pc = "prep_done" /\ ~ret_prep.raised)
        => ret_prep.path = ReferencePath(argv.model, ret_dirs.dirs)

\* explicit path missing everywhere, the first candidate directory without a
\* default, the second one with the second default name only
C9_Witness ==
    /\ pc = "prep_done" /\ ~ret_prep.raised
    /\ Truthy(argv.model) /\ ~Exists(PathOf(argv.model.text))
    /\ Len(ret_dirs.dirs) >= 2
    /\ \A i \in 1..Len(ret_dirs.dirs) : ~Exists(JoinPath(ret_dirs.dirs[i], argv.model.text))
    /\ ~HasDefault(ret_dirs.dirs[1])
    /\ ~Exists(JoinPath(ret_dirs.dirs[2], DefaultNames[1]))
    /\ ret_prep.path = JoinPath(ret_dirs.dirs[2], DefaultNames[2])

\* the paths prepare_model_path tests for an explicit path: the path as
\* given, then its joins up to the first one that exists
TestedForExplicit(cli, cands) ==
    LET explicitAt == {i \in 1..Len(cands) : Exists(JoinPath(cands[i], cli.text))}
        last == IF explicitAt = {} THEN Len(cands) ELSE Min(explicitAt)
    IN  {Str(PathOf(cli.text))} \cup
        (IF Exists(PathOf(cli.text)) THEN {}
         ELSE {Str(JoinPath(cands[i], cli.text)) : i \in 1..last})

\* C10: with an explicit model path, every path tested for existence on its
\* behalf is in the attempted list prepare_model_path returns, whatever the
\* outcome.
C10_TestedPathsAreReported ==
    (pc = "prep_done" /\ ~ret_prep.raised /\ Truthy(argv.model))
        => TestedForExplicit(argv.model, ret_dirs.dirs) \subseteq Range(ret_prep.tried)

====
